---- MODULE Spec2Model ----
(***************************************************************************)
(* A model of syslog.py (class LogSensors): the asyncio tasks started by   *)
(* main() in every cycle (one load_disk per configured disk, load_sensors  *)
(* and send_data, all handed to one asyncio.gather), the shared list       *)
(* self.data, the TCP writer of send_data and the aligned sleep.           *)
(*                                                                         *)
(* asyncio runs one task at a time and a task gives up control only at an  *)
(* await that really suspends, so every action below is the code between   *)
(* two suspension points of one task.                                      *)
(***************************************************************************)
EXTENDS Integers, Sequences, FiniteSets, TLC

(***************************************************************************)
(* Bounds of the model.                                                    *)
(***************************************************************************)
MaxCycles == 2
MaxElapsed == 2
MaxInterval == 3
MaxLines == 2
MaxLiveCycles == 3
MaxFacility == 3
MaxPriority == 8
MaxSamples == 2
MaxSelectors == 2

(***************************************************************************)
(* Strings.  A Python str that the code takes apart (a token of the disk   *)
(* tool's output, a key of the sensor tree, a regular expression) is a     *)
(* sequence of characters; a run of letters that the code never splits is  *)
(* written as one element.                                                 *)
(***************************************************************************)
Digits == {"0", "1", "2", "3", "4", "5", "6", "7", "8", "9"}

DigitVal(c) ==
    CASE c = "0" -> 0 [] c = "1" -> 1 [] c = "2" -> 2 [] c = "3" -> 3
      [] c = "4" -> 4 [] c = "5" -> 5 [] c = "6" -> 6 [] c = "7" -> 7
      [] c = "8" -> 8 [] c = "9" -> 9

\* int(tok) raises ValueError unless tok is a run of decimal digits.
IsIntToken(tok) == Len(tok) > 0 /\ \A i \in 1..Len(tok) : tok[i] \in Digits

RECURSIVE IntOfToken(_)
IntOfToken(tok) ==
    IF Len(tok) = 0 THEN 0
    ELSE 10 * IntOfToken(SubSeq(tok, 1, Len(tok) - 1)) + DigitVal(tok[Len(tok)])

RECURSIVE Gcd(_, _)
Gcd(a, b) == IF b = 0 THEN a ELSE Gcd(b, a % b)

\* value | other on non-negative ints
RECURSIVE BitOr(_, _)
BitOr(a, b) ==
    IF a = 0 THEN b
    ELSE IF b = 0 THEN a
    ELSE (IF a % 2 = 1 \/ b % 2 = 1 THEN 1 ELSE 0) + 2 * BitOr(a \div 2, b \div 2)

(***************************************************************************)
(* Values.  A node of the tree that json.loads returns is a number, a      *)
(* string or a mapping with its items in key order.  The value of a key of *)
(* a message dict is a string, a timestamp (the instant it renders), a     *)
(* number (a quotient n/d in lowest terms, as true division gives) or a    *)
(* list of nodes.                                                          *)
(***************************************************************************)
NumNode(v) == [kind |-> "num", val |-> v, items |-> <<>>]
StrNode    == [kind |-> "str", val |-> 0, items |-> <<>>]
MapNode(its) == [kind |-> "map", val |-> 0, items |-> its]
Item(k, n) == [key |-> k, node |-> n]

StrVal(str) == [kind |-> "str", s |-> str, n |-> 0, d |-> 1, l |-> <<>>]
TimeVal(t) == [kind |-> "time", s |-> <<>>, n |-> t, d |-> 1, l |-> <<>>]
NumVal(a, b) == [kind |-> "num", s |-> <<>>, n |-> a \div Gcd(a, b), d |-> b \div Gcd(a, b), l |-> <<>>]
ListVal(ns)  == [kind |-> "list", s |-> <<>>, n |-> 0, d |-> 1, l |-> ns]

(***************************************************************************)
(* A Python dict with string keys: its entries in insertion order.         *)
(***************************************************************************)
DictHas(dict, k) == \E i \in 1..Len(dict) : dict[i].k = k

DictGet(dict, k) == dict[CHOOSE i \in 1..Len(dict) : dict[i].k = k].v

DictSet(dict, k, v) ==
    IF DictHas(dict, k)
    THEN [i \in 1..Len(dict) |-> IF dict[i].k = k THEN [k |-> k, v |-> v] ELSE dict[i]]
    ELSE Append(dict, [k |-> k, v |-> v])

DictDel(dict, k) == SelectSeq(dict, LAMBDA e : e.k # k)

DictKeys(dict) == {dict[i].k : i \in 1..Len(dict)}

(***************************************************************************)
(* re.match(pattern, key): the pattern matches at the START of the key.    *)
(* The patterns of the configuration are a literal with an optional `$`:   *)
(* without `$` any key that begins with the literal matches, with `$` only *)
(* the key equal to the literal.                                           *)
(***************************************************************************)
Pattern(literal, anchored) == [lit |-> literal, dollar |-> anchored]

re_match(pattern, key) ==
    /\ Len(pattern.lit) <= Len(key)
    /\ SubSeq(key, 1, Len(pattern.lit)) = pattern.lit
    /\ pattern.dollar => Len(key) = Len(pattern.lit)

(***************************************************************************)
(* select_readings.  .keys() of a node that is no mapping raises           *)
(* AttributeError; reduce() of an empty list, with no initial value,       *)
(* raises TypeError.                                                       *)
(***************************************************************************)
Raised(e) == [ok |-> FALSE, err |-> e, vals |-> <<>>]
Returned(vs) == [ok |-> TRUE, err |-> "", vals |-> vs]

RECURSIVE Concat(_)
Concat(lists) ==
    IF Len(lists) = 0 THEN <<>> ELSE Head(lists) \o Concat(Tail(lists))

\* a variant that takes a value that is no mapping for an empty one
RECURSIVE select_readings_Lenient(_, _)
select_readings_Lenient(sensors_data, sensor_device) ==
    IF sensors_data.kind # "map" THEN Returned(<<>>)
    ELSE
      LET matched == SelectSeq(sensors_data.items,
                               LAMBDA it : re_match(sensor_device[1], it.key))
      IN IF Len(sensor_device) = 1
         THEN Returned([i \in 1..Len(matched) |-> matched[i].node])
         ELSE LET subs == [i \in 1..Len(matched) |->
                             select_readings_Lenient(matched[i].node, Tail(sensor_device))]
              IN IF \E i \in 1..Len(subs) : ~subs[i].ok
                 THEN subs[CHOOSE i \in 1..Len(subs) :
                             /\ ~subs[i].ok
                             /\ \A j \in 1..(i - 1) : subs[j].ok]
                 ELSE IF Len(subs) = 0
                 THEN Raised("TypeError")
                 ELSE Returned(Concat([i \in 1..Len(subs) |-> subs[i].vals]))

RECURSIVE select_readings(_, _)
select_readings(sensors_data, sensor_device) ==
    IF sensors_data.kind # "map" THEN Raised("AttributeError")
    ELSE
      LET matched == SelectSeq(sensors_data.items,
                               LAMBDA it : re_match(sensor_device[1], it.key))
      IN IF Len(sensor_device) = 1
         THEN Returned([i \in 1..Len(matched) |-> matched[i].node])
         ELSE LET subs == [i \in 1..Len(matched) |->
                             select_readings(matched[i].node, Tail(sensor_device))]
              IN IF \E i \in 1..Len(subs) : ~subs[i].ok
                 THEN subs[CHOOSE i \in 1..Len(subs) :
                             /\ ~subs[i].ok
                             /\ \A j \in 1..(i - 1) : subs[j].ok]
                 ELSE IF Len(subs) = 0
                 THEN Raised("TypeError")
                 ELSE Returned(Concat([i \in 1..Len(subs) |-> subs[i].vals]))

(***************************************************************************)
(* The configuration (self.config), read once by __init__.                 *)
(***************************************************************************)
VARIABLE config     \* self.config

DefaultConfig ==
    [disk_names |-> <<"sda", "sdb">>,
     sensor_names |-> <<"cpu", "fan">>,
     sensor_devices |->
       [n \in {"cpu", "fan"} |->
          IF n = "cpu"
          THEN <<Pattern(<<"coretemp">>, FALSE),
                 Pattern(<<"temp", "1", "_input">>, TRUE)>>
          ELSE <<Pattern(<<"fan">>, FALSE)>>]]

disk_names == config.disk_names
sensor_names == config.sensor_names

sensor_devices(sensor_name) == config.sensor_devices[sensor_name]

Hostname == <<"host">>
ProcessTag == <<"syslog.py", "[", "4", "2", "]", ":">>

(***************************************************************************)
(* format_message.  `now` is the instant datetime.now() returns.           *)
(***************************************************************************)
Failed(e) == [ok |-> FALSE, err |-> e, line |-> <<>>]

RECURSIVE SumNodes(_)
SumNodes(ns) == IF Len(ns) = 0 THEN 0 ELSE Head(ns).val + SumNodes(Tail(ns))

\* a variant that adds the samples up and forgets to divide
Mean_Sum(readings) ==
    IF Len(readings) = 0 THEN Failed("TypeError")
    ELSE IF \E i \in 1..Len(readings) : readings[i].kind # "num" THEN Failed("TypeError")
    ELSE [ok |-> TRUE, err |-> "", line |-> NumVal(SumNodes(readings), 1)]

\* reduce(lambda a, b: a + b, readings) / len(readings)
Mean(readings) ==
    IF Len(readings) = 0 THEN Failed("TypeError")
    ELSE IF \E i \in 1..Len(readings) : readings[i].kind # "num" THEN Failed("TypeError")
    ELSE [ok |-> TRUE, err |-> "", line |-> NumVal(SumNodes(readings), Len(readings))]

\* a variant that forgets to shift the facility
PriValue_NoShift(message) ==
    BitOr(IF DictHas(message, "Facility") THEN DictGet(message, "Facility").n ELSE 3,
          IF DictHas(message, "Priority") THEN DictGet(message, "Priority").n ELSE 6)

\* lines 35-43: value = Facility << 3, then value |= Priority
PriValue(message) ==
    BitOr(IF DictHas(message, "Facility") THEN DictGet(message, "Facility").n * 8 ELSE 3 * 8,
          IF DictHas(message, "Priority") THEN DictGet(message, "Priority").n ELSE 6)

format_message(message, now) ==
    IF ~DictHas(message, "name") \/ ~DictHas(message, "readings") THEN Failed("KeyError")
    ELSE
      LET value == PriValue(message)
          name == DictGet(message, "name").s[1]
          mean == Mean(DictGet(message, "readings").l)
      IN IF ~mean.ok THEN mean
         ELSE LET updated == DictSet(DictSet(DictSet(message,
                                 "hostname", StrVal(Hostname)),
                                 "timereported", TimeVal(now)),
                                 name, mean.line)
              IN IF ~DictHas(updated, "readings") THEN Failed("KeyError")
                 ELSE [ok |-> TRUE, err |-> "",
                       line |-> [header |-> [pri |-> value, time |-> now],
                                 hostname |-> Hostname,
                                 tag |-> ProcessTag,
                                 marker |-> "@cee:",
                                 payload |-> DictDel(updated, "readings")]]

(***************************************************************************)
(* load_disk, from the tool's stdout on: the lines of stdout, each split   *)
(* into tokens.  line[9] and line[1] raise IndexError on a shorter line,   *)
(* int() raises ValueError on a token that is no number.                   *)
(***************************************************************************)
Tok190 == <<"1", "9", "0">>
Tok194 == <<"1", "9", "4">>

RECURSIVE JoinTokens(_)
JoinTokens(toks) ==
    IF Len(toks) = 0 THEN <<>>
    ELSE IF Len(toks) = 1 THEN toks[1]
    ELSE toks[1] \o <<" ">> \o JoinTokens(Tail(toks))

Parsed(m) == [ok |-> TRUE, err |-> "", message |-> m]
ParseError(e) == [ok |-> FALSE, err |-> e, message |-> <<>>]

\* a variant that knows attribute 194 only
ParseAttribute_Only194(message, line) ==
    IF Len(line) > 0 /\ line[1] = <<"1", "9", "4">>
    THEN IF Len(line) < 10 THEN ParseError("IndexError")
         ELSE IF ~IsIntToken(line[10]) THEN ParseError("ValueError")
         ELSE Parsed(DictSet(message, "readings",
                             ListVal(<<NumNode(IntOfToken(line[10]))>>)))
    ELSE Parsed(message)

\* lines 93-94
ParseAttribute(message, line) ==
    IF Len(line) > 0 /\ line[1] \in {Tok190, Tok194}
    THEN IF Len(line) < 10 THEN ParseError("IndexError")
         ELSE IF ~IsIntToken(line[10]) THEN ParseError("ValueError")
         ELSE Parsed(DictSet(message, "readings",
                             ListVal(<<NumNode(IntOfToken(line[10]))>>)))
    ELSE Parsed(message)

\* lines 95-98
ParseLabel(message, line, first, second, key) ==
    IF Len(line) > 0 /\ line[1] = first
    THEN IF Len(line) < 2 THEN ParseError("IndexError")
         ELSE IF line[2] = second
         THEN Parsed(DictSet(message, key, StrVal(JoinTokens(SubSeq(line, 3, Len(line))))))
         ELSE Parsed(message)
    ELSE Parsed(message)

ParseLine(message, line) ==
    LET a == ParseAttribute(message, line)
    IN IF ~a.ok THEN a
       ELSE LET b == ParseLabel(a.message, line, <<"Device">>, <<"Model:">>, "model")
            IN IF ~b.ok THEN b
               ELSE ParseLabel(b.message, line, <<"Serial">>, <<"Number:">>, "serial")

RECURSIVE ParseLines(_, _)
ParseLines(message, lines) ==
    IF Len(lines) = 0 THEN Parsed(message)
    ELSE LET r == ParseLine(message, Head(lines))
         IN IF ~r.ok THEN r ELSE ParseLines(r.message, Tail(lines))

Outcome(okay, e, msgs) == [ok |-> okay, err |-> e, appended |-> msgs]

\* What load_disk does once communicate() has returned `stdout`: the lines it
\* appends to self.data and whether it raises.
load_disk(disk_name, stdout, now) ==
    LET r == ParseLines(<<[k |-> "name", v |-> StrVal(<<disk_name>>)]>>, stdout)
    IN IF ~r.ok THEN Outcome(FALSE, r.err, <<>>)
       ELSE IF DictHas(r.message, "readings")
       THEN LET f == format_message(r.message, now)
            IN IF f.ok THEN Outcome(TRUE, "", <<f.line>>) ELSE Outcome(FALSE, f.err, <<>>)
       ELSE Outcome(TRUE, "", <<>>)

(***************************************************************************)
(* load_sensors, from the tool's stdout on.  stdout is text json.loads     *)
(* rejects (parses = FALSE) or the text of a tree.                         *)
(***************************************************************************)
RECURSIVE SensorsLoop(_, _, _, _)
SensorsLoop(names, sensor_data, now, done) ==
    IF Len(names) = 0 THEN Outcome(TRUE, "", done)
    ELSE LET sel == select_readings(sensor_data, sensor_devices(Head(names)))
         IN IF ~sel.ok THEN Outcome(FALSE, sel.err, done)
            ELSE LET f == format_message(
                            <<[k |-> "name", v |-> StrVal(<<Head(names)>>)],
                              [k |-> "readings", v |-> ListVal(sel.vals)]>>, now)
                 IN IF ~f.ok THEN Outcome(FALSE, f.err, done)
                    ELSE SensorsLoop(Tail(names), sensor_data, now, Append(done, f.line))

\* a variant that walks sensor_names from its last name to its first
load_sensors_Reversed(stdout, now) ==
    IF ~stdout.parses THEN Outcome(FALSE, "JSONDecodeError", <<>>)
    ELSE SensorsLoop([i \in 1..Len(sensor_names) |->
                         sensor_names[Len(sensor_names) + 1 - i]],
                     stdout.tree, now, <<>>)

load_sensors(stdout, now) ==
    IF ~stdout.parses THEN Outcome(FALSE, "JSONDecodeError", <<>>)
    ELSE SensorsLoop(sensor_names, stdout.tree, now, <<>>)

(***************************************************************************)
(* What the external tools print, in the model of the whole agent.         *)
(***************************************************************************)
Tok(word) == <<word>>

AttributeLine(id, raw) ==
    <<id, Tok("Temperature"), Tok("0x0022"), <<"0", "6", "5">>, <<"0", "5", "0">>,
      <<"0", "0", "0">>, Tok("Old_age"), Tok("Always"), Tok("-"), raw>>

DiskOutputs ==
    { <<AttributeLine(Tok194, <<"3", "5">>)>>,
      <<<<Tok("Device"), Tok("Model:"), Tok("WDC")>>>>,
      <<<<Tok194, Tok("Temperature")>>>> }

CoreKey == <<"coretemp", "-isa">>
Temp1Key == <<"temp", "1", "_input">>
Temp2Key == <<"temp", "2", "_input">>
Fan1Key == <<"fan", "1">>

JsonText(node) == [parses |-> TRUE, tree |-> node]
NotJson == [parses |-> FALSE, tree |-> StrNode]

SensorOutputs ==
    { NotJson,
      JsonText(MapNode(<<Item(CoreKey, MapNode(<<Item(Temp1Key, NumNode(42))>>)),
                         Item(Fan1Key, NumNode(1200))>>)),
      JsonText(MapNode(<<Item(CoreKey, MapNode(<<Item(Temp2Key, NumNode(50))>>)),
                         Item(Fan1Key, NumNode(1200))>>)),
      JsonText(MapNode(<<Item(CoreKey, MapNode(<<Item(Temp1Key, NumNode(42))>>))>>)) }

(***************************************************************************)
(* The state of the agent.                                                 *)
(***************************************************************************)
VARIABLES
    dry_run,        \* self.args.dry_run
    INTERVAL,       \* self.config['INTERVAL']
    data,           \* self.data
    pcMain,         \* where main() is: "loop", "gather", "sleep", "raised"
    pcDisk,         \* where each load_disk task is
    pcSensors,      \* where the load_sensors task is
    pcSend,         \* where the send_data task is
    disk_stdout,    \* what each load_disk read from its tool in this cycle
    sensors_stdout, \* what load_sensors read from its tool in this cycle
    writer,         \* the connection of send_data: "none", "open", "closed"
    wire,           \* the lines written to the connections, in order
    printed,        \* the documents printed in dry-run mode, in order
    now,            \* the wall clock, in seconds
    delay,          \* the argument of the asyncio.sleep last called
    cycle,          \* the number of the cycle (iterations of `while True`)
    cycleStart,     \* the clock when the cycle began
    appended,       \* the lines appended to self.data in this cycle, in order
    call,           \* the arguments of a method called on its own
    ret             \* what that call returned or raised; <<>> before it ends

vars == <<dry_run, INTERVAL, data, pcMain, pcDisk, pcSensors, pcSend, disk_stdout,
          sensors_stdout, writer, wire, printed, now, delay, cycle, cycleStart,
          appended, config, call, ret>>

Disks == {disk_names[i] : i \in 1..Len(disk_names)}

Ended == {"done", "raised", "cancelled"}

\* json.dumps(self.data, indent=2): one line per element between the brackets,
\* every element but the last followed by a comma.
json_dumps(list) ==
    <<[kind |-> "[", item |-> <<>>, comma |-> FALSE]>>
    \o [i \in 1..Len(list) |-> [kind |-> "item", item |-> <<list[i]>>,
                                comma |-> i < Len(list)]]
    \o <<[kind |-> "]", item |-> <<>>, comma |-> FALSE]>>

Init ==
    /\ config = DefaultConfig
    /\ call = <<>>
    /\ ret = <<>>
    /\ dry_run \in BOOLEAN
    /\ INTERVAL = 2
    /\ data = <<>>
    /\ pcMain = "loop"
    /\ pcDisk = [d \in Disks |-> "idle"]
    /\ pcSensors = "idle"
    /\ pcSend = "idle"
    /\ disk_stdout = [d \in Disks |-> <<>>]
    /\ sensors_stdout = <<>>
    /\ writer = "none"
    /\ wire = <<>>
    /\ printed = <<>>
    /\ now = 0
    /\ delay = 0
    /\ cycle = 0
    /\ cycleStart = 0
    /\ appended = <<>>

(***************************************************************************)
(* send_data.                                                              *)
(***************************************************************************)
\* a variant that clears the batch in dry-run mode without printing it
SendStart_ClearOnly ==
    IF data = <<>>
    THEN pcSend' = "done" /\ UNCHANGED <<data, printed>>
    ELSE IF dry_run
    THEN /\ printed' = printed
         /\ data' = <<>>
         /\ pcSend' = "done"
    ELSE pcSend' = "open_connection" /\ UNCHANGED <<data, printed>>

\* a variant that leaves the line it writes in the queue
SendLoop_NoPop ==
    IF data # <<>>
    THEN /\ wire' = Append(wire, Head(data))
         /\ data' = data
         /\ writer' = "open"
         /\ pcSend' = "drain"
    ELSE /\ writer' = "closed"
         /\ pcSend' = "wait_closed"
         /\ UNCHANGED <<wire, data>>

\* a variant that prints the batch and forgets to clear it
SendStart_NoClear ==
    IF data = <<>>
    THEN pcSend' = "done" /\ UNCHANGED <<data, printed>>
    ELSE IF dry_run
    THEN /\ printed' = Append(printed, json_dumps(data))
         /\ data' = data
         /\ pcSend' = "done"
    ELSE pcSend' = "open_connection" /\ UNCHANGED <<data, printed>>

\* lines 125-133: from the call to the first await
SendStart ==
    IF data = <<>>
    THEN pcSend' = "done" /\ UNCHANGED <<data, printed>>
    ELSE IF dry_run
    THEN /\ printed' = Append(printed, json_dumps(data))
         /\ data' = <<>>
         /\ pcSend' = "done"
    ELSE pcSend' = "open_connection" /\ UNCHANGED <<data, printed>>

\* a variant that pops with pop() instead of pop(0)
SendLoop_PopLast ==
    IF data # <<>>
    THEN /\ wire' = Append(wire, data[Len(data)])
         /\ data' = SubSeq(data, 1, Len(data) - 1)
         /\ writer' = "open"
         /\ pcSend' = "drain"
    ELSE /\ writer' = "closed"
         /\ pcSend' = "wait_closed"
         /\ UNCHANGED <<wire, data>>

\* lines 136-140: the loop test, then one pop and write, or the close
SendLoop ==
    IF data # <<>>
    THEN /\ wire' = Append(wire, Head(data))
         /\ data' = Tail(data)
         /\ writer' = "open"
         /\ pcSend' = "drain"
    ELSE /\ writer' = "closed"
         /\ pcSend' = "wait_closed"
         /\ UNCHANGED <<wire, data>>

\* line 133: open_connection returns the writer
SendConnected ==
    /\ pcSend = "open_connection"
    /\ SendLoop
    /\ UNCHANGED <<config, call, ret, dry_run, INTERVAL, pcMain, pcDisk, pcSensors, disk_stdout,
                   sensors_stdout, printed, now, delay, cycle, cycleStart, appended>>

\* line 133: open_connection raises (connection refused, timed out)
SendConnectFails ==
    /\ pcSend = "open_connection"
    /\ pcSend' = "raised"
    /\ UNCHANGED <<config, call, ret, dry_run, INTERVAL, data, pcMain, pcDisk, pcSensors, disk_stdout,
                   sensors_stdout, writer, wire, printed, now, delay, cycle,
                   cycleStart, appended>>

\* line 138: drain returns
SendDrained ==
    /\ pcSend = "drain"
    /\ SendLoop
    /\ UNCHANGED <<config, call, ret, dry_run, INTERVAL, pcMain, pcDisk, pcSensors, disk_stdout,
                   sensors_stdout, printed, now, delay, cycle, cycleStart, appended>>

\* line 138: drain raises (connection reset); nothing catches it
SendDrainFails ==
    /\ pcSend = "drain"
    /\ pcSend' = "raised"
    /\ UNCHANGED <<config, call, ret, dry_run, INTERVAL, data, pcMain, pcDisk, pcSensors, disk_stdout,
                   sensors_stdout, writer, wire, printed, now, delay, cycle,
                   cycleStart, appended>>

\* line 141: wait_closed returns
SendClosed ==
    /\ pcSend = "wait_closed"
    /\ pcSend' = "done"
    /\ UNCHANGED <<config, call, ret, dry_run, INTERVAL, data, pcMain, pcDisk, pcSensors, disk_stdout,
                   sensors_stdout, writer, wire, printed, now, delay, cycle,
                   cycleStart, appended>>

(***************************************************************************)
(* The collectors.  A task waits for its tool (lines 80-85, 104-109) and   *)
(* runs the rest of its body, which has no await that suspends, when       *)
(* communicate() returns.  A tool that hangs is a task that never takes    *)
(* its step.                                                               *)
(***************************************************************************)
\* a variant that puts its line at the front of self.data
DiskReturns_Prepend(disk_name, stdout) ==
    LET r == load_disk(disk_name, stdout, now)
    IN /\ pcDisk[disk_name] = "communicate"
       /\ disk_stdout' = [disk_stdout EXCEPT ![disk_name] = <<stdout>>]
       /\ data' = r.appended \o data
       /\ appended' = appended \o r.appended
       /\ pcDisk' = [pcDisk EXCEPT ![disk_name] = IF r.ok THEN "done" ELSE "raised"]
       /\ UNCHANGED <<config, call, ret, dry_run, INTERVAL, pcMain, pcSensors, pcSend, sensors_stdout,
                      writer, wire, printed, now, delay, cycle, cycleStart>>

DiskReturns(disk_name, stdout) ==
    LET r == load_disk(disk_name, stdout, now)
    IN /\ pcDisk[disk_name] = "communicate"
       /\ disk_stdout' = [disk_stdout EXCEPT ![disk_name] = <<stdout>>]
       /\ data' = data \o r.appended
       /\ appended' = appended \o r.appended
       /\ pcDisk' = [pcDisk EXCEPT ![disk_name] = IF r.ok THEN "done" ELSE "raised"]
       /\ UNCHANGED <<config, call, ret, dry_run, INTERVAL, pcMain, pcSensors, pcSend, sensors_stdout,
                      writer, wire, printed, now, delay, cycle, cycleStart>>

SensorsReturn(stdout) ==
    LET r == load_sensors(stdout, now)
    IN /\ pcSensors = "communicate"
       /\ sensors_stdout' = <<stdout>>
       /\ data' = data \o r.appended
       /\ appended' = appended \o r.appended
       /\ pcSensors' = IF r.ok THEN "done" ELSE "raised"
       /\ UNCHANGED <<config, call, ret, dry_run, INTERVAL, pcMain, pcDisk, pcSend, disk_stdout,
                      writer, wire, printed, now, delay, cycle, cycleStart>>

(***************************************************************************)
(* main.                                                                   *)
(***************************************************************************)
\* lines 144-158: gather() makes one task per coroutine, in the order of its
\* arguments; the loop runs the first step of each in that order, so every
\* load_disk and load_sensors is waiting for its tool when send_data starts.
GatherWithin(cycles) ==
    /\ pcMain = "loop"
    /\ cycle < cycles
    /\ cycle' = cycle + 1
    /\ cycleStart' = now
    /\ pcDisk' = [d \in Disks |-> "communicate"]
    /\ pcSensors' = "communicate"
    /\ disk_stdout' = [d \in Disks |-> <<>>]
    /\ sensors_stdout' = <<>>
    /\ appended' = <<>>
    /\ writer' = "none"
    /\ SendStart
    /\ pcMain' = "gather"
    /\ UNCHANGED <<config, call, ret, dry_run, INTERVAL, wire, now, delay>>

Gather == GatherWithin(MaxCycles)

\* a variant that returns as soon as one task is done
AllDone_FirstCompleted ==
    \/ \E d \in Disks : pcDisk[d] = "done"
    \/ pcSensors = "done"
    \/ pcSend = "done"

AllDone ==
    /\ \A d \in Disks : pcDisk[d] = "done"
    /\ pcSensors = "done"
    /\ pcSend = "done"

SomeRaised ==
    \/ \E d \in Disks : pcDisk[d] = "raised"
    \/ pcSensors = "raised"
    \/ pcSend = "raised"

\* a variant that sleeps for the time already spent in the interval
SleepDelay_Elapsed(interval, t) == t % interval

\* lines 159-160: the argument of asyncio.sleep
SleepDelay(interval, t) == interval - (t % interval)

\* lines 158-160: gather returns, main goes to sleep
Sleep ==
    /\ pcMain = "gather"
    /\ AllDone
    /\ delay' = SleepDelay(INTERVAL, now)
    /\ pcMain' = "sleep"
    /\ UNCHANGED <<config, call, ret, dry_run, INTERVAL, data, pcDisk, pcSensors, pcSend, disk_stdout,
                   sensors_stdout, writer, wire, printed, now, cycle, cycleStart,
                   appended>>

\* line 159: the sleep is over
Wake ==
    /\ pcMain = "sleep"
    /\ now' = now + delay
    /\ pcMain' = "loop"
    /\ UNCHANGED <<config, call, ret, dry_run, INTERVAL, data, pcDisk, pcSensors, pcSend, disk_stdout,
                   sensors_stdout, writer, wire, printed, delay, cycle, cycleStart,
                   appended>>

Cancel(pc) == IF pc \in Ended THEN pc ELSE "cancelled"

\* line 145 and line 169: gather hands the first exception of a task to main,
\* nothing catches it, and asyncio.run cancels the tasks still pending.
MainRaises ==
    /\ pcMain = "gather"
    /\ SomeRaised
    /\ pcMain' = "raised"
    /\ pcDisk' = [d \in Disks |-> Cancel(pcDisk[d])]
    /\ pcSensors' = Cancel(pcSensors)
    /\ pcSend' = Cancel(pcSend)
    /\ UNCHANGED <<config, call, ret, dry_run, INTERVAL, data, disk_stdout, sensors_stdout, writer,
                   wire, printed, now, delay, cycle, cycleStart, appended>>

\* the wall clock advances while the tasks of a cycle run
Tick ==
    /\ pcMain = "gather"
    /\ now - cycleStart < MaxElapsed
    /\ now' = now + 1
    /\ UNCHANGED <<config, call, ret, dry_run, INTERVAL, data, pcMain, pcDisk, pcSensors, pcSend,
                   disk_stdout, sensors_stdout, writer, wire, printed, delay, cycle,
                   cycleStart, appended>>

DiskCompletes == \E d \in Disks : \E stdout \in DiskOutputs : DiskReturns(d, stdout)

SensorsComplete == \E stdout \in SensorOutputs : SensorsReturn(stdout)

Next ==
    \/ Gather
    \/ DiskCompletes
    \/ SensorsComplete
    \/ SendConnected
    \/ SendConnectFails
    \/ SendDrained
    \/ SendDrainFails
    \/ SendClosed
    \/ Sleep
    \/ Wake
    \/ MainRaises

\* The agent with every outcome of its tools and of its connection.  The clock
\* moves while main sleeps; SpecClock below lets it move during a cycle too.
Spec == Init /\ [][Next]_vars

(***************************************************************************)
(* The agent with tools and a connection that never fail, the interval any *)
(* positive number up to MaxInterval, started at any second of an interval *)
(* and with the clock moving while the tasks of a cycle run, up to         *)
(* MaxElapsed seconds a cycle.  The disks report no temperature, so the    *)
(* batch holds the messages of the sensors.                                *)
(***************************************************************************)
\* a disk that reports no temperature attribute (load_disk appends nothing)
QuietDiskOutput == <<<<Tok("Device"), Tok("Model:"), Tok("WDC")>>>>

GoodSensorOutput ==
    JsonText(MapNode(<<Item(CoreKey, MapNode(<<Item(Temp1Key, NumNode(42))>>)),
                       Item(Fan1Key, NumNode(1200))>>))

InitClock ==
    /\ config = DefaultConfig
    /\ call = <<>>
    /\ ret = <<>>
    /\ dry_run \in BOOLEAN
    /\ INTERVAL \in 1..MaxInterval
    /\ now \in 0..(INTERVAL - 1)
    /\ cycleStart = now
    /\ data = <<>>
    /\ pcMain = "loop"
    /\ pcDisk = [d \in Disks |-> "idle"]
    /\ pcSensors = "idle"
    /\ pcSend = "idle"
    /\ disk_stdout = [d \in Disks |-> <<>>]
    /\ sensors_stdout = <<>>
    /\ writer = "none"
    /\ wire = <<>>
    /\ printed = <<>>
    /\ delay = 0
    /\ cycle = 0
    /\ appended = <<>>

DiskCompletesWell == \E d \in Disks : DiskReturns(d, QuietDiskOutput)

SensorsCompleteWell == SensorsReturn(GoodSensorOutput)

NextClock ==
    \/ Gather
    \/ DiskCompletesWell
    \/ SensorsCompleteWell
    \/ SendConnected
    \/ SendDrained
    \/ SendClosed
    \/ Sleep
    \/ Wake
    \/ Tick

SpecClock == InitClock /\ [][NextClock]_vars

(***************************************************************************)
(* load_disk on every output of at most MaxLines lines: the state when the *)
(* tasks of the first cycle wait for their tools, and each load_disk       *)
(* reading any of the outputs.                                             *)
(***************************************************************************)
DiskLines ==
    { <<>>,
      AttributeLine(Tok190, <<"3", "5">>),
      AttributeLine(Tok194, <<"4", "0">>),
      AttributeLine(Tok194, Tok("-")),
      AttributeLine(<<"5">>, <<"0">>),
      <<Tok194, Tok("Temperature")>>,
      <<Tok("Device"), Tok("Model:"), Tok("WDC"), Tok("WD10")>>,
      <<Tok("Serial")>> }

AllDiskOutputs == UNION {[1..k -> DiskLines] : k \in 0..MaxLines}

InitDisk ==
    /\ config = DefaultConfig
    /\ call = <<>>
    /\ ret = <<>>
    /\ dry_run = FALSE
    /\ INTERVAL = 2
    /\ now = 0
    /\ cycleStart = 0
    /\ data = <<>>
    /\ pcMain = "gather"
    /\ pcDisk = [d \in Disks |-> "communicate"]
    /\ pcSensors = "communicate"
    /\ pcSend = "done"
    /\ disk_stdout = [d \in Disks |-> <<>>]
    /\ sensors_stdout = <<>>
    /\ writer = "none"
    /\ wire = <<>>
    /\ printed = <<>>
    /\ delay = 0
    /\ cycle = 1
    /\ appended = <<>>

NextDisk == \E d \in Disks : \E stdout \in AllDiskOutputs : DiskReturns(d, stdout)

SpecDisk == InitDisk /\ [][NextDisk]_vars

(***************************************************************************)
(* select_readings called on its own: on a number, a string, and every     *)
(* mapping of depth one or two over two keys, with every sequence of one   *)
(* to MaxSelectors patterns, of which one matches both keys, one matches   *)
(* one key and one matches none.                                           *)
(***************************************************************************)
SelectKeys == {Temp1Key, Temp2Key}

Leaves == {NumNode(42), StrNode}

\* the mappings with distinct keys of SelectKeys, in any order, over children
MapsOver(children) ==
    LET items == {Item(k, c) : k \in SelectKeys, c \in children}
        lists == UNION {[1..n -> items] : n \in 0..Cardinality(SelectKeys)}
    IN {MapNode(its) : its \in
          {l \in lists : \A i, j \in 1..Len(l) : l[i].key = l[j].key => i = j}}

Trees == Leaves \cup MapsOver(Leaves) \cup MapsOver(Leaves \cup MapsOver(Leaves))

SelectPatterns ==
    {Pattern(<<"temp">>, FALSE), Pattern(Temp1Key, TRUE), Pattern(<<"fan">>, FALSE)}

Selectors == UNION {[1..n -> SelectPatterns] : n \in 1..MaxSelectors}

Idle ==
    /\ config = DefaultConfig
    /\ INTERVAL = 2
    /\ data = <<>>
    /\ pcMain = "loop"
    /\ pcDisk = [d \in Disks |-> "idle"]
    /\ pcSensors = "idle"
    /\ pcSend = "idle"
    /\ disk_stdout = [d \in Disks |-> <<>>]
    /\ sensors_stdout = <<>>
    /\ writer = "none"
    /\ wire = <<>>
    /\ printed = <<>>
    /\ now = 0
    /\ delay = 0
    /\ cycle = 0
    /\ cycleStart = 0
    /\ appended = <<>>

InitSelect ==
    /\ Idle
    /\ dry_run = FALSE
    /\ call \in {[fn |-> "select_readings", sensors_data |-> t, sensor_device |-> s] :
                   t \in Trees, s \in Selectors}
    /\ ret = <<>>

CallSelect ==
    /\ ret = <<>>
    /\ call.fn = "select_readings"
    /\ ret' = <<select_readings(call.sensors_data, call.sensor_device)>>
    /\ UNCHANGED <<config, call, dry_run, INTERVAL, data, pcMain, pcDisk, pcSensors,
                   pcSend, disk_stdout, sensors_stdout, writer, wire, printed, now,
                   delay, cycle, cycleStart, appended>>

NextSelect == CallSelect

SpecSelect == InitSelect /\ [][NextSelect]_vars

(***************************************************************************)
(* format_message called on its own: on every message with a name, a list  *)
(* of at most MaxSamples samples, and a Facility up to MaxFacility and a   *)
(* Priority up to MaxPriority or neither.                                  *)
(***************************************************************************)
FormatNames == {"cpu", "hostname", "readings"}

Samples == {NumNode(10), NumNode(25), StrNode}

SampleLists == UNION {[1..n -> Samples] : n \in 0..MaxSamples}

Entry(key, value) == [k |-> key, v |-> value]

FacilityChoices == {<<>>} \cup {<<Entry("Facility", NumVal(f, 1))>> : f \in 0..MaxFacility}

PriorityChoices == {<<>>} \cup {<<Entry("Priority", NumVal(p, 1))>> : p \in 0..MaxPriority}

FormatMessages ==
    {f \o p \o <<Entry("name", StrVal(<<n>>)), Entry("readings", ListVal(rs))>> :
       f \in FacilityChoices, p \in PriorityChoices, n \in FormatNames,
       rs \in SampleLists}

InitFormat ==
    /\ Idle
    /\ dry_run = FALSE
    /\ call \in {[fn |-> "format_message", message |-> m] : m \in FormatMessages}
    /\ ret = <<>>

CallFormat ==
    /\ ret = <<>>
    /\ call.fn = "format_message"
    /\ ret' = <<format_message(call.message, now)>>
    /\ UNCHANGED <<config, call, dry_run, INTERVAL, data, pcMain, pcDisk, pcSensors,
                   pcSend, disk_stdout, sensors_stdout, writer, wire, printed, now,
                   delay, cycle, cycleStart, appended>>

NextFormat == CallFormat

SpecFormat == InitFormat /\ [][NextFormat]_vars

(***************************************************************************)
(* The agent in dry-run mode with one disk and the one sensor cpu, the     *)
(* disk tool printing a 194 line with value 35, the sensor tool the tree   *)
(* {"coretemp-isa-0000": {"temp1_input": 42.0}}, the interval 5 and the    *)
(* clock moving during a cycle.  The sensor is configured with the single  *)
(* selector temp1_input$ or with one selector for each level of the tree.  *)
(***************************************************************************)
ScenarioConfig(selectors) ==
    [disk_names |-> <<"sda">>,
     sensor_names |-> <<"cpu">>,
     sensor_devices |-> [n \in {"cpu"} |-> selectors]]

OneSelector == <<Pattern(Temp1Key, TRUE)>>

SelectorPerLevel == <<Pattern(<<"coretemp">>, FALSE), Pattern(Temp1Key, TRUE)>>

ScenarioDiskOutput == <<AttributeLine(Tok194, <<"3", "5">>)>>

ScenarioSensorOutput ==
    JsonText(MapNode(<<Item(<<"coretemp", "-isa", "-0000">>,
                            MapNode(<<Item(Temp1Key, NumNode(42))>>))>>))

InitScenario ==
    /\ config \in {ScenarioConfig(OneSelector), ScenarioConfig(SelectorPerLevel)}
    /\ call = <<>>
    /\ ret = <<>>
    /\ dry_run = TRUE
    /\ INTERVAL = 5
    /\ data = <<>>
    /\ pcMain = "loop"
    /\ pcDisk = [d \in Disks |-> "idle"]
    /\ pcSensors = "idle"
    /\ pcSend = "idle"
    /\ disk_stdout = [d \in Disks |-> <<>>]
    /\ sensors_stdout = <<>>
    /\ writer = "none"
    /\ wire = <<>>
    /\ printed = <<>>
    /\ now = 0
    /\ delay = 0
    /\ cycle = 0
    /\ cycleStart = 0
    /\ appended = <<>>

DiskCompletesScenario == \E d \in Disks : DiskReturns(d, ScenarioDiskOutput)

SensorsCompleteScenario == SensorsReturn(ScenarioSensorOutput)

NextScenario ==
    \/ Gather
    \/ DiskCompletesScenario
    \/ SensorsCompleteScenario
    \/ Sleep
    \/ Wake
    \/ MainRaises
    \/ Tick

SpecScenario == InitScenario /\ [][NextScenario]_vars

(***************************************************************************)
(* The agent when nothing fails and nothing hangs: every tool completes    *)
(* with a good output, every connection opens, drains and closes, and the  *)
(* event loop runs every task that can run.  Without the failures the      *)
(* model is small enough for MaxLiveCycles cycles.                         *)
(***************************************************************************)
InitLive ==
    /\ Idle
    /\ dry_run \in BOOLEAN
    /\ call = <<>>
    /\ ret = <<>>

GatherLive == GatherWithin(MaxLiveCycles)

NextLive ==
    \/ GatherLive
    \/ DiskCompletesScenario
    \/ SensorsCompleteWell
    \/ SendConnected
    \/ SendDrained
    \/ SendClosed
    \/ Sleep
    \/ Wake

\* the steps of main: the gather of a cycle, its sleep and its waking up
MainStep == GatherLive \/ Sleep \/ Wake

\* the steps of send_data after its first: its connection opens, drains, closes
SendStep == SendConnected \/ SendDrained \/ SendClosed

\* the event loop runs main whenever it can run, and the connection of
\* send_data answers: neither waits for ever for a step it can take
FairLive == WF_vars(MainStep) /\ WF_vars(SendStep)

SpecLive == InitLive /\ [][NextLive]_vars /\ FairLive

(***************************************************************************)
(* Properties.                                                             *)
(***************************************************************************)
IsPrefix(s, t) == Len(s) <= Len(t) /\ SubSeq(t, 1, Len(s)) = s

Range(s) == {s[i] : i \in 1..Len(s)}

CollectorsCompleted ==
    /\ \A d \in Disks : pcDisk[d] \in Ended
    /\ pcSensors \in Ended

\* the elements of a printed document, in order
Items(doc) == [i \in 1..(Len(doc) - 2) |-> doc[i + 1].item[1]]

Printed == UNION {Range(Items(printed[i])) : i \in 1..Len(printed)}

NameOf(line) == DictGet(line.payload, "name").s[1]

Names(lines) == [i \in 1..Len(lines) |-> NameOf(lines[i])]

\* C1: in every cycle send_data neither reads nor removes an element of the
\* batch until every load_disk and load_sensors of that cycle has completed:
\* while a collector is pending, a step only appends to self.data.
C1_SinkAfterCollectors ==
    [][~IsPrefix(data, data') => CollectorsCompleted']_vars

\* C2: the batch is empty at the start of every cycle and when the cycle's
\* sleep begins.
C2_BatchEmptyBetweenCycles ==
    pcMain \in {"loop", "sleep"} => data = <<>>

ConfigOrder == disk_names \o sensor_names

Position(name) == CHOOSE i \in 1..Len(ConfigOrder) : ConfigOrder[i] = name

SensorSet == {sensor_names[i] : i \in 1..Len(sensor_names)}

\* the places of `names` held by a sensor's name
SensorPlaces(names) == {i \in 1..Len(names) : names[i] \in SensorSet}

\* C3 as stated: the messages appended in one cycle are in the order disks in
\* disk_names order, then sensors in sensor_names order, whatever order the
\* tools complete in.
C3_ConfiguredOrder ==
    \A i, j \in 1..Len(appended) :
        i < j => Position(NameOf(appended[i])) < Position(NameOf(appended[j]))

\* C3, amended: the sensor messages of one cycle are appended next to each
\* other, in sensor_names order from its first name on, and (the configured
\* names being distinct) no name has two messages in one cycle; where the
\* disk messages stand is left to the order the tools complete in.
C3_SensorsInOrder ==
    LET names == Names(appended)
        places == SensorPlaces(names)
    IN /\ \A i, j \in 1..Len(names) : i # j => names[i] # names[j]
       /\ \A i, j \in places : \A k \in i..j : k \in places
       /\ \A i \in places :
              names[i] = sensor_names[1 + Cardinality({j \in places : j < i})]

\* C3 witness: both sensors appended after sdb and before sda
C3_Witness ==
    Names(appended) = <<"sdb", "cpu", "fan", "sda">>

WriteInFlightOrFailed ==
    /\ writer = "open"
    /\ pcSend \in {"drain", "raised"}

\* C4 as stated: in live mode, while a write is in flight or has failed, the
\* entry being written is still in the queue.
C4_EntryStillQueued ==
    WriteInFlightOrFailed => wire[Len(wire)] \in Range(data)

\* C4, amended: in live mode every step that hands an entry to the writer takes
\* the entry at the front of the queue and removes it in that same step, before
\* the write's drain: while the write is in flight or fails the entry is no
\* longer queued.
C4_PoppedBeforeWrite ==
    [][wire' # wire =>
          /\ data # <<>>
          /\ wire' = Append(wire, Head(data))
          /\ data' = Tail(data)
          /\ pcSend' = "drain"]_vars

\* C4 witness: a write in flight with entries still queued behind it
C4_Witness ==
    /\ pcSend = "drain"
    /\ Len(data) >= 2
    /\ wire[Len(wire)] \notin Range(data)

\* C5: in live mode the connection a send_data call opened is closed when the
\* call ends, also when it ends with an error of write or drain.
C5_ConnectionClosedOnExit ==
    pcSend \in {"done", "raised"} => writer # "open"

\* the collector task that appends the messages of `name`
TaskOf(name) == IF name \in SensorSet THEN "load_sensors" ELSE name

RaisedTasks ==
    {d \in Disks : pcDisk[d] = "raised"}
    \cup (IF pcSensors = "raised" THEN {"load_sensors"} ELSE {})

\* C6: if a collector task of a cycle raises, no message that another task
\* appended in that cycle is delivered (written to a connection or printed).
C6_SiblingsDiscarded ==
    \A i \in 1..Len(appended) :
        (RaisedTasks \ {TaskOf(NameOf(appended[i]))}) # {}
            => appended[i] \notin Range(wire) /\ appended[i] \notin Printed

Selection(tree, sensor_name) == select_readings(tree, sensor_devices(sensor_name))

\* the selectors of the sensor match no value of the tree
MatchesNothing(tree, sensor_name) ==
    LET r == Selection(tree, sensor_name)
    IN \/ r.ok /\ r.vals = <<>>
       \/ ~r.ok /\ r.err = "TypeError"

\* the selectors of the sensor match numbers, at least one
MatchesNumbers(tree, sensor_name) ==
    LET r == Selection(tree, sensor_name)
    IN /\ r.ok
       /\ r.vals # <<>>
       /\ \A i \in 1..Len(r.vals) : r.vals[i].kind = "num"

\* C7: when the tool's tree gives some configured sensors no value and the
\* others numbers, load_sensors completes without an error and has appended
\* the message of every sensor that has values.
C7_EmptySensorSkipped ==
    (/\ sensors_stdout # <<>>
     /\ sensors_stdout[1].parses
     /\ \A n \in SensorSet :
            \/ MatchesNothing(sensors_stdout[1].tree, n)
            \/ MatchesNumbers(sensors_stdout[1].tree, n))
    => /\ pcSensors \in {"done", "cancelled"}
       /\ pcSensors = "done" =>
              \A n \in SensorSet :
                  MatchesNumbers(sensors_stdout[1].tree, n)
                      => n \in Range(Names(appended))

\* C10: in dry-run mode send_data on a non-empty batch prints one array that
\* holds the batch's strings, each once and in insertion order, and leaves the
\* batch empty.
C10_DryRunPrintsBatch ==
    [][(dry_run /\ cycle' # cycle /\ data # <<>>) =>
          /\ Len(printed') = Len(printed) + 1
          /\ SubSeq(printed', 1, Len(printed)) = printed
          /\ LET doc == printed'[Len(printed')]
             IN /\ doc[1].kind = "[" /\ doc[Len(doc)].kind = "]"
                /\ \A i \in 2..(Len(doc) - 1) :
                       doc[i].kind = "item" /\ (doc[i].comma <=> i < Len(doc) - 1)
                /\ Items(doc) = data
          /\ data' = <<>>
          /\ wire' = wire]_vars

\* C10 witness: a printed array of two or more strings, the batch empty
C10_Witness ==
    /\ dry_run
    /\ printed # <<>>
    /\ Len(Items(printed[1])) >= 2
    /\ data = <<>>
    /\ pcSend = "done"
    /\ cycle = 2

IsAttributeLine(line) == Len(line) > 0 /\ line[1] \in {Tok190, Tok194}

IsLabelLine(line) == Len(line) > 0 /\ line[1] \in {Tok("Device"), Tok("Serial")}

AttributePlaces(stdout) == {i \in 1..Len(stdout) : IsAttributeLine(stdout[i])}

WellFormed(stdout) ==
    \A i \in 1..Len(stdout) :
        /\ IsAttributeLine(stdout[i]) =>
               Len(stdout[i]) >= 10 /\ IsIntToken(stdout[i][10])
        /\ IsLabelLine(stdout[i]) => Len(stdout[i]) >= 2

MessagesOf(name) == SelectSeq(appended, LAMBDA line : NameOf(line) = name)

Max(S) == CHOOSE x \in S : \A y \in S : y <= x

\* C8 as stated: for every output of the disk tool, load_disk raises no error,
\* appends exactly one message when a line of the output begins with 190 or
\* 194, and appends none when no line does.
C8_OneMessageOrNone ==
    \A d \in Disks :
        disk_stdout[d] # <<>> =>
            /\ pcDisk[d] = "done"
            /\ Len(MessagesOf(d)) =
                   IF AttributePlaces(disk_stdout[d][1]) # {} THEN 1 ELSE 0

\* C8, amended: that holds for the outputs in which every line that begins with
\* 190 or 194 has ten tokens or more, the tenth a decimal number, and every
\* line that begins with Device or Serial has a second token; the one message
\* carries the tenth token of the last such line, as a single sample.  On any
\* other output load_disk raises and appends nothing.
C8_OneMessageIfWellFormed ==
    \A d \in Disks :
        disk_stdout[d] # <<>> =>
            LET stdout == disk_stdout[d][1]
                places == AttributePlaces(stdout)
            IN IF WellFormed(stdout)
               THEN /\ pcDisk[d] = "done"
                    /\ Len(MessagesOf(d)) = IF places # {} THEN 1 ELSE 0
                    /\ places # {} =>
                           LET value == DictGet(MessagesOf(d)[1].payload, d)
                           IN /\ value.kind = "num"
                              /\ value.d = 1
                              /\ value.n = IntOfToken(stdout[Max(places)][10])
               ELSE /\ pcDisk[d] = "raised"
                    /\ Len(MessagesOf(d)) = 0

\* C8 witness: sda read a 190 line and then a 194 line and appended one message
\* with 40, sdb read no attribute line and appended nothing
C8_Witness ==
    /\ disk_stdout["sda"] = <<<<AttributeLine(Tok190, <<"3", "5">>),
                               AttributeLine(Tok194, <<"4", "0">>)>>>>
    /\ Len(MessagesOf("sda")) = 1
    /\ DictGet(MessagesOf("sda")[1].payload, "sda").n = 40
    /\ disk_stdout["sdb"] = <<<<<<Tok("Device"), Tok("Model:"), Tok("WDC"), Tok("WD10")>>>>>>
    /\ pcDisk["sdb"] = "done"
    /\ Len(MessagesOf("sdb")) = 0

\* C9: the sleep computed for interval and clock now is interval - (now mod
\* interval), more than 0, at most interval, and ends on a multiple of
\* interval, so every cycle after the first begins on one, however long the
\* cycle before it took; interval 60 at second 23 gives 37.
C9_AlignedSleep ==
    /\ SleepDelay(60, 23) = 37
    /\ pcMain = "sleep" =>
           /\ delay = INTERVAL - (now % INTERVAL)
           /\ 0 < delay /\ delay <= INTERVAL
           /\ (now + delay) % INTERVAL = 0
    /\ (cycle > 1 /\ pcMain # "loop") => cycleStart % INTERVAL = 0
    /\ (cycle > 0 /\ pcMain = "loop") => now % INTERVAL = 0

\* C9 witness: the second cycle took the whole interval or longer
C9_Witness ==
    /\ pcMain = "sleep"
    /\ cycle = 2
    /\ INTERVAL >= 2
    /\ now - cycleStart >= INTERVAL

(***************************************************************************)
(* select_readings on its own (SpecSelect).                                *)
(***************************************************************************)
Selected == ret # <<>> /\ call.fn = "select_readings"

MatchesNoKey(tree, pattern) ==
    /\ tree.kind = "map"
    /\ \A i \in 1..Len(tree.items) : ~re_match(pattern, tree.items[i].key)

\* C11: when the first pattern of the selectors matches no key of the mapping
\* select_readings is called on, the call returns the empty list and raises
\* nothing, also when more selectors follow that pattern.
C11_EmptyMatchIsEmptyList ==
    (Selected /\ MatchesNoKey(call.sensors_data, call.sensor_device[1]))
        => ret[1] = Returned(<<>>)

\* the values under the keys of a mapping that a pattern matches, in key order
MatchedNodes(tree, pattern) ==
    LET matched == SelectSeq(tree.items, LAMBDA it : re_match(pattern, it.key))
    IN [i \in 1..Len(matched) |-> matched[i].node]

\* C12: for every mapping and every non-empty sequence of selectors,
\* select_readings with one selector returns the values of all direct child keys
\* the selector matches, in key order; with more than one selector it returns
\* the concatenation, in child-key order, of the selections made with the
\* remaining selectors on each child the first selector matches (whenever those
\* selections themselves return).
C12_SelectionByLevel ==
    (Selected /\ call.sensors_data.kind = "map") =>
        LET matched == MatchedNodes(call.sensors_data, call.sensor_device[1])
            subs == [i \in 1..Len(matched) |->
                       select_readings(matched[i], Tail(call.sensor_device))]
        IN IF Len(call.sensor_device) = 1
           THEN ret[1] = Returned(matched)
           ELSE (\A i \in 1..Len(subs) : subs[i].ok)
                    => ret[1] = Returned(Concat([i \in 1..Len(subs) |-> subs[i].vals]))

(***************************************************************************)
(* format_message on its own (SpecFormat).                                 *)
(***************************************************************************)
Formatted == ret # <<>> /\ call.fn = "format_message" /\ ret[1].ok

FacilityOf(message) ==
    IF DictHas(message, "Facility") THEN DictGet(message, "Facility").n ELSE 3

PriorityOf(message) ==
    IF DictHas(message, "Priority") THEN DictGet(message, "Priority").n ELSE 6

\* C13 as stated: for every facility and priority the number in the header is
\* facility * 8 + priority, the facility being 3 and the priority 6 when unset.
C13_FacilityTimes8PlusPriority ==
    Formatted =>
        ret[1].line.header.pri
            = FacilityOf(call.message) * 8 + PriorityOf(call.message)

\* C13 amended: for every facility and every priority from 0 to 7 the number in
\* the header is facility * 8 + priority (30 with both unset, 13 for facility 1
\* and priority 5); for every priority it is the bitwise OR of facility * 8 and
\* the priority, which is less than the sum from priority 8 on.
C13_HeaderNumber ==
    Formatted =>
        LET f == FacilityOf(call.message)
            p == PriorityOf(call.message)
            pri == ret[1].line.header.pri
        IN /\ p <= 7 => pri = f * 8 + p
           /\ (~DictHas(call.message, "Facility") /\ ~DictHas(call.message, "Priority"))
                  => pri = 30
           /\ (f = 1 /\ p = 5) => pri = 13
           /\ pri = BitOr(f * 8, p)
           /\ pri <= f * 8 + p

\* C13 witness: a message with Facility 1 and Priority 5 was formatted
C13_Witness ==
    /\ Formatted
    /\ DictHas(call.message, "Facility") /\ FacilityOf(call.message) = 1
    /\ DictHas(call.message, "Priority") /\ PriorityOf(call.message) = 5
    /\ ret[1].line.header.pri = 13

NameIn(message) == DictGet(message, "name").s[1]

SamplesIn(message) == DictGet(message, "readings").l

\* a call of format_message on a message with one numeric sample or more
FormatCalledOnSamples ==
    /\ ret # <<>>
    /\ call.fn = "format_message"
    /\ Len(SamplesIn(call.message)) > 0
    /\ \A i \in 1..Len(SamplesIn(call.message)) : SamplesIn(call.message)[i].kind = "num"

\* the payload has a field `key` that holds the arithmetic mean of the samples
HoldsMean(payload, key, samples) ==
    /\ DictHas(payload, key)
    /\ DictGet(payload, key).kind = "num"
    /\ DictGet(payload, key).n * Len(samples) = SumNodes(samples) * DictGet(payload, key).d

\* C14 as stated: for every reading with a name and a non-empty sample list the
\* payload format_message builds has a field keyed by the reading's name that
\* holds the arithmetic mean of the samples, and has no field `readings`.
C14_MeanUnderName ==
    FormatCalledOnSamples =>
        /\ ret[1].ok
        /\ HoldsMean(ret[1].line.payload, NameIn(call.message), SamplesIn(call.message))
        /\ ~DictHas(ret[1].line.payload, "readings")

\* C14 amended: for every reading with a non-empty list of numeric samples
\* format_message returns a payload without a field `readings`; unless the
\* reading's name is itself `readings`, the payload has a field keyed by the
\* name that holds the arithmetic mean of the samples.
C14_MeanUnderOtherName ==
    FormatCalledOnSamples =>
        /\ ret[1].ok
        /\ ~DictHas(ret[1].line.payload, "readings")
        /\ NameIn(call.message) # "readings"
               => HoldsMean(ret[1].line.payload, NameIn(call.message),
                            SamplesIn(call.message))

\* C14 witness: the samples 10 and 25 of the reading cpu were averaged to 35/2
C14_Witness ==
    /\ FormatCalledOnSamples
    /\ NameIn(call.message) = "cpu"
    /\ SamplesIn(call.message) = <<NumNode(10), NumNode(25)>>
    /\ DictGet(ret[1].line.payload, "cpu") = NumVal(35, 2)

(***************************************************************************)
(* The end-to-end scenario (SpecScenario).                                 *)
(***************************************************************************)
\* a printed array of exactly two messages, one of the disk with the value 35
\* and one of the sensor with the value 42, neither with a field `readings`
TwoMessagesDocument(doc) ==
    LET lines == Items(doc)
    IN /\ Len(lines) = 2
       /\ \E i, j \in 1..2 :
            /\ NameOf(lines[i]) = "sda"
            /\ DictGet(lines[i].payload, "sda") = NumVal(35, 1)
            /\ NameOf(lines[j]) = "cpu"
            /\ DictGet(lines[j].payload, "cpu") = NumVal(42, 1)
       /\ \A i \in 1..2 : ~DictHas(lines[i].payload, "readings")

\* C15: in dry-run mode, with one disk whose tool prints a 194 line with value
\* 35 and the sensor cpu with the single selector temp1_input$ over the tree
\* {"coretemp-isa-0000": {"temp1_input": 42.0}}, the output of the cycle, once
\* the cycle is over, is one array of exactly two messages, one for the disk
\* and one for the sensor, each with its averaged value and no `readings` key.
C15_TwoMessagesPrinted ==
    (config = ScenarioConfig(OneSelector) /\ cycle = 1 /\ pcMain \in {"sleep", "raised"})
        => (Len(printed) = 1 /\ TwoMessagesDocument(printed[1]))

\* C16: in live mode send_data removes elements from the front of self.data
\* only, and what it removes it writes next: the lines written followed by the
\* lines still queued only ever grow at the end, so the lines are written in
\* the order they were appended, also when a collector appends while send_data
\* is draining.
C16_WrittenInAppendOrder ==
    [][~dry_run =>
          /\ IsPrefix(wire \o data, wire' \o data')
          /\ Len(data') < Len(data)
                 => (data' = Tail(data) /\ wire' = Append(wire, Head(data)))]_vars

\* C16 witness: a line appended in the second cycle while send_data drained
\* the lines of the first has been written, after them
C16_Witness ==
    /\ ~dry_run
    /\ cycle = 2
    /\ Len(wire) >= 2
    /\ wire[Len(wire)] \in Range(appended)
    /\ wire[1] \notin Range(appended)

\* the selection comes, before the last selector, to a matched key whose value
\* is no mapping
RECURSIVE ReachesNonMapping(_, _)
ReachesNonMapping(tree, selectors) ==
    /\ tree.kind = "map"
    /\ Len(selectors) > 1
    /\ \E i \in 1..Len(tree.items) :
         /\ re_match(selectors[1], tree.items[i].key)
         /\ \/ tree.items[i].node.kind # "map"
            \/ ReachesNonMapping(tree.items[i].node, Tail(selectors))

\* the selection comes, with the last selector, to a matched key whose value is
\* no number
RECURSIVE ReachesNonNumeric(_, _)
ReachesNonNumeric(tree, selectors) ==
    /\ tree.kind = "map"
    /\ \E i \in 1..Len(tree.items) :
         /\ re_match(selectors[1], tree.items[i].key)
         /\ IF Len(selectors) = 1
            THEN tree.items[i].node.kind # "num"
            ELSE ReachesNonNumeric(tree.items[i].node, Tail(selectors))

\* C17 as stated: select_readings fails with an error when a key matched before
\* the last selector holds a value that is no mapping, and also when a value
\* matched by the last selector is not numeric.
C17_FailsOnMismatch ==
    (/\ Selected
     /\ \/ ReachesNonMapping(call.sensors_data, call.sensor_device)
        \/ ReachesNonNumeric(call.sensors_data, call.sensor_device))
        => ~ret[1].ok

\* C17 amended: select_readings fails with an error when a key matched before
\* the last selector holds a value that is no mapping.  It does not look at the
\* values the last selector matches: called with one selector on a mapping it
\* always returns, and a string or a mapping matched at the final depth is
\* returned with the other values whenever the call returns; averaging such a
\* list is what fails, in format_message.
C17_FailsOnNonMappingOnly ==
    Selected =>
        /\ ReachesNonMapping(call.sensors_data, call.sensor_device) => ~ret[1].ok
        /\ (call.sensors_data.kind = "map" /\ Len(call.sensor_device) = 1) => ret[1].ok
        /\ (ret[1].ok /\ ReachesNonNumeric(call.sensors_data, call.sensor_device))
               => /\ \E i \in 1..Len(ret[1].vals) : ret[1].vals[i].kind # "num"
                  /\ ~Mean(ret[1].vals).ok

\* C17 witness: two selectors came to a string at the final depth and
\* select_readings returned it
C17_Witness ==
    /\ Selected
    /\ Len(call.sensor_device) = 2
    /\ ReachesNonNumeric(call.sensors_data, call.sensor_device)
    /\ ret[1].ok
    /\ \E i \in 1..Len(ret[1].vals) : ret[1].vals[i] = StrNode

\* a task whose tool has not completed: waiting for it, or cancelled while
\* waiting when the process ended
NotCompleted(pc) == pc \in {"communicate", "cancelled"}

\* C18: while a tool invocation of a cycle has not completed, main is inside
\* that cycle's gather or has ended with an exception: it is neither in the
\* cycle's sleep nor back at the top of the loop to start a later cycle, and
\* nothing but the completion of the tool or the end of the process ends the
\* wait.
C18_HungToolStallsCycle ==
    ((\E d \in Disks : NotCompleted(pcDisk[d])) \/ NotCompleted(pcSensors))
        => pcMain \in {"gather", "raised"}

\* C18 witness: in the second cycle everything is done but the tool of sda
C18_Witness ==
    /\ cycle = 2
    /\ pcMain = "gather"
    /\ pcDisk["sda"] = "communicate"
    /\ pcDisk["sdb"] = "done"
    /\ pcSensors = "done"
    /\ pcSend = "done"

(***************************************************************************)
(* The agent when nothing fails (SpecLive).                                *)
(***************************************************************************)
\* the lines the tasks append in SpecLive in a cycle that another cycle of the
\* model follows: of each disk and sensor with the value its tool reports, at
\* the start of the cycle (cycle c begins at second 2 * (c - 1))
EarlierLines ==
    {format_message(<<Entry("name", StrVal(<<nv[1]>>)),
                      Entry("readings", ListVal(<<NumNode(nv[2])>>))>>, t).line :
       nv \in {<<"sda", 35>>, <<"sdb", 35>>, <<"cpu", 42>>, <<"fan", 1200>>},
       t \in {2 * (c - 1) : c \in 1..(MaxLiveCycles - 1)}}

\* the lines send_data has printed or written so far
Output == Printed \cup Range(wire)

\* every tool invocation completes: no task waits for its tool for ever
EveryToolCompletes ==
    /\ \A d \in {"sda", "sdb"} : []<>(pcDisk[d] # "communicate")
    /\ []<>(pcSensors # "communicate")

\* C19: when no collector, connection or write fails and every tool completes,
\* every line appended to self.data is eventually printed (dry-run mode) or
\* written to a connection (live mode).  (Of the lines of the last cycle the
\* model runs, those still queued at its end wait for a cycle the model does
\* not run.)
C19_EveryLineOutput ==
    EveryToolCompletes =>
        \A m \in EarlierLines : (m \in Range(data)) ~> (m \in Output)

\* C19 witness: a line appended in the second cycle has been output in the third
C19_Witness ==
    /\ cycle = 3
    /\ \E m \in Output : m.header.time = 2
    /\ \A m \in Range(data) : m.header.time = 4

\* the lines printed or written so far, in the order of their output (a run is
\* in one mode, so one of the two parts is empty)
OutputSeq == wire \o Concat([i \in 1..Len(printed) |-> Items(printed[i])])

\* C20: over any number of cycles no line appended to self.data is output more
\* than once, whether printed (dry-run mode) or written to a connection (live
\* mode): the lines output so far are all different, and none of them is still
\* in the queue to be output again.
C20_NoLineOutputTwice ==
    /\ \A i, j \in 1..Len(OutputSeq) : OutputSeq[i] = OutputSeq[j] => i = j
    /\ \A i \in 1..Len(OutputSeq) : OutputSeq[i] \notin Range(data)

\* C20 witness: in dry-run mode the batches of two cycles have been printed, in
\* the second and in the third cycle
C20_Witness ==
    /\ dry_run
    /\ cycle = 3
    /\ Len(printed) = 2
    /\ Len(OutputSeq) = 8

====
